---- MODULE Spec2Model ----
(***************************************************************************)
(* Model of cpp_to_rust_generator/src/cpp_ffi_generator.rs: the generator  *)
(* of the C-linkage wrapper surface.  run() walks the include files of the *)
(* parsed C++ data, process_methods() filters and translates the methods   *)
(* of one unit and resolves the name conflicts of every base name, and     *)
(* generate_slot_wrappers() synthesizes the bridge classes of the observed *)
(* signal argument tuples and feeds them through process_methods() again.  *)
(*                                                                         *)
(* A string is a sequence of tokens: the tokens are the pieces between the *)
(* underscores, so format!("{}_{}", a, b) is a \o b and two strings are    *)
(* equal exactly when their token sequences are.  The empty string is <<>>.*)
(* A file name is the sequence of its pieces between the dots.             *)
(***************************************************************************)
EXTENDS Integers, Sequences, FiniteSets, TLC

VARIABLES
  cpp_data,       \* the input: [methods, signal_argument_types, include_files]
  filters,        \* the FFI filters passed to run(), in order
  pc,             \* where run() stands: "includes", "slots" or "done"
  include_index,  \* position of the for loop of run() in include_name_list
  c_headers,      \* run: the headers pushed so far
  result          \* what run() returned: [status, err, headers]

vars == <<cpp_data, filters, pc, include_index, c_headers, result>>

(***************************************************************************)
(* Bounds of the enumerated inputs.                                        *)
(***************************************************************************)
MaxMethods == 3
MaxFilters == 2
MaxTuples == 2

(***************************************************************************)
(* Strings and their order.                                                *)
(***************************************************************************)
\* The tokens in byte order.  Where one token is a prefix of another, the
\* longer one goes on with a lower-case letter, which sorts after '_', so the
\* token-wise order below is the byte-wise order of the joined strings.
TokenOrder ==
  << "A", "B", "QFlags", "QList", "QObject", "QString", "SlotWrapper", "T",
     "a", "args", "b", "bar", "cast", "const", "constructor", "custom",
     "destructor", "foo", "func", "g", "h", "int", "lib", "no",
     "ptr", "set", "sig", "slot", "slots", "static", "void" >>

TokenRankOf ==
  [t \in {TokenOrder[i] : i \in 1..Len(TokenOrder)} |->
     CHOOSE i \in 1..Len(TokenOrder) : TokenOrder[i] = t]

TokenRank(t) == TokenRankOf[t]

\* String::cmp, Less case: lexicographic, a proper prefix first.
RECURSIVE StrLess(_, _)
StrLess(a, b) ==
  IF b = <<>> THEN FALSE
  ELSE IF a = <<>> THEN TRUE
  ELSE IF Head(a) = Head(b) THEN StrLess(Tail(a), Tail(b))
  ELSE TokenRank(Head(a)) < TokenRank(Head(b))

\* let v = ...; body: v is computed once, however often body reads it
With(v, body(_)) == body(v)

\* Result<T>: Ok(v) and Err(e).
Ok(v) == [ok |-> TRUE, val |-> v, err |-> "none"]
Err(e) == [ok |-> FALSE, val |-> <<>>, err |-> e]

(***************************************************************************)
(* C++ types (cpp_type.rs, not part of the modelled file).                 *)
(***************************************************************************)
CppType(kind, name, indirection) ==
  [kind |-> kind, name |-> name, indirection |-> indirection,
   is_const |-> FALSE, arguments |-> <<>>]

TInt == CppType("Primitive", <<"int">>, "None")
TIntPtr == CppType("Primitive", <<"int">>, "Ptr")
TQString == CppType("Class", <<"QString">>, "None")
\* a class with a nested template argument: it has no FFI mapping
TQList == CppType("Class", <<"QList">>, "None")
TTemplateParameter == CppType("TemplateParameter", <<"T">>, "None")
\* CppType::void()
TVoid == CppType("Void", <<"void">>, "None")

UnsupportedClasses == {<<"QList">>}

RECURSIVE is_or_contains_template_parameter(_)
is_or_contains_template_parameter(t) ==
  \/ t.kind = "TemplateParameter"
  \/ \E i \in 1..Len(t.arguments) : is_or_contains_template_parameter(t.arguments[i])

\* CppType::to_cpp_ffi_type: primitives and pointers pass through, a class by
\* value becomes a pointer, a function pointer is translated piecewise.
RECURSIVE to_cpp_ffi_type(_, _)
to_cpp_ffi_type(t, role) ==
  CASE t.kind = "TemplateParameter" -> Err("no FFI type")
    [] t.kind = "Class" ->
         IF t.name \in UnsupportedClasses THEN Err("no FFI type")
         ELSE Ok([original_type |-> t,
                  ffi_type |-> [t EXCEPT !.indirection = "Ptr"]])
    [] t.kind = "FunctionPointer" ->
         IF \E i \in 1..Len(t.arguments) :
              ~to_cpp_ffi_type(t.arguments[i], "NotReturnType").ok
         THEN Err("no FFI type")
         ELSE Ok([original_type |-> t, ffi_type |-> t])
    [] OTHER -> Ok([original_type |-> t, ffi_type |-> t])

\* CppType::caption(TypeCaptionStrategy)
type_caption(t, strategy) ==
  CASE t.kind = "TemplateParameter" -> Err("no FFI type")
    [] t.kind = "FunctionPointer" -> Ok(<<"func">>)
    [] OTHER ->
         IF strategy = "Short" THEN Ok(t.name)
         ELSE Ok((IF t.is_const THEN <<"const">> ELSE <<>>) \o t.name
                 \o (IF t.indirection = "Ptr" THEN <<"ptr">> ELSE <<>>))

\* map_if_ok: the first error, or the sequence of the values
RECURSIVE map_if_ok(_, _)
map_if_ok(results, acc) ==
  IF results = <<>> THEN Ok(acc)
  ELSE IF ~Head(results).ok THEN Head(results)
  ELSE map_if_ok(Tail(results), Append(acc, Head(results).val))

RECURSIVE Join(_)
Join(strings) ==
  IF strings = <<>> THEN <<>> ELSE Head(strings) \o Join(Tail(strings))

(***************************************************************************)
(* C++ methods (cpp_method.rs) and the input data (cpp_data.rs).           *)
(***************************************************************************)
CppMethod(name, class_name, kind, arguments, include_file) ==
  [name |-> name,
   has_class_membership |-> class_name # <<>>,
   class_name |-> class_name,
   kind |-> kind,
   visibility |-> "Public",
   is_pure_virtual |-> FALSE,
   is_const |-> FALSE,
   is_signal |-> FALSE,
   is_slot |-> FALSE,
   return_type |-> TVoid,
   arguments |-> arguments,
   include_file |-> include_file,
   template_arguments |-> FALSE,
   template_arguments_values |-> FALSE,
   is_ffi_whitelisted |-> FALSE,
   is_fake_inherited_method |-> FALSE]

FileA == <<"a", "h">>
FileB == <<"b", "h">>

FooInt == CppMethod(<<"foo">>, <<"A">>, "Regular", <<TInt>>, FileB)
Ineligible == CppMethod(<<"h">>, <<"B">>, "Regular", <<TInt>>, FileA)

\* The methods the input data is drawn from.
MethodPool ==
  << FooInt,
     CppMethod(<<"foo">>, <<"A">>, "Regular", <<>>, FileB),
     CppMethod(<<"foo", "int">>, <<"A">>, "Regular", <<>>, FileB),
     [FooInt EXCEPT !.is_const = TRUE],
     CppMethod(<<"foo">>, <<"A">>, "Regular", <<TIntPtr>>, FileB),
     [FooInt EXCEPT !.template_arguments_values = TRUE, !.is_ffi_whitelisted = TRUE],
     CppMethod(<<"B">>, <<"B">>, "Constructor", <<>>, FileA),
     [CppMethod(<<"bar">>, <<"B">>, "Regular", <<>>, FileA)
        EXCEPT !.is_pure_virtual = TRUE],
     CppMethod(<<"g">>, <<>>, "Regular", <<TQList>>, FileA),
     [Ineligible EXCEPT !.is_fake_inherited_method = TRUE],
     [Ineligible EXCEPT !.visibility = "Private"],
     [Ineligible EXCEPT !.arguments = <<TTemplateParameter>>] >>

\* The signal argument tuples the input data is drawn from.
TuplePool == << <<>>, <<TInt, TQString>>, <<TQList>> >>

\* The filters the configuration is drawn from: a filter answers "true",
\* "false" or "err" (CppFfiGeneratorFilterFn returns Result<bool>).
FilterPool == <<"no_slots", "no_set_no_g">>

FilterFn(filter, method) ==
  CASE filter = "no_slots" ->
         IF method.include_file = <<"slots">> THEN "false" ELSE "true"
    [] filter = "no_set_no_g" ->
         IF method.name = <<"g">> /\ method.arguments = <<TQList>> THEN "err"
         ELSE IF method.name \in {<<"set">>, <<"foo", "int">>} THEN "false"
         ELSE "true"

cpp_ffi_lib_name == <<"lib">>

\* CppData::has_pure_virtual_methods
has_pure_virtual_methods(class_name) ==
  \E i \in 1..Len(cpp_data.methods) :
    /\ cpp_data.methods[i].has_class_membership
    /\ cpp_data.methods[i].class_name = class_name
    /\ cpp_data.methods[i].is_pure_virtual

\* CppMethod::all_involved_types
all_involved_types(method) ==
  {method.return_type} \cup {method.arguments[i] : i \in 1..Len(method.arguments)}

\* The allocation place of a class without an override (CppData's policy).
type_allocation_place(class_name) ==
  IF class_name = <<"B">> THEN "Heap" ELSE "Stack"

\* CppMethod::to_ffi_signature: every argument and the return type are
\* translated on their own; the first type without a mapping fails the method.
to_ffi_signature(method, type_allocation_places_override) ==
  With(map_if_ok([i \in 1..Len(method.arguments) |->
                    to_cpp_ffi_type(method.arguments[i], "NotReturnType")], <<>>),
       LAMBDA args :
  With(to_cpp_ffi_type(method.return_type, "ReturnType"), LAMBDA ret :
     IF ~args.ok THEN args
     ELSE IF ~ret.ok THEN ret
     ELSE Ok([cpp_method |-> method,
              allocation_place |->
                IF type_allocation_places_override # "None"
                THEN type_allocation_places_override
                ELSE type_allocation_place(method.class_name),
              c_signature |->
                [arguments |-> [i \in 1..Len(args.val) |-> args.val[i].ffi_type],
                 is_const |-> method.is_const,
                 return_type |-> ret.val.ffi_type]])))

\* cpp_ffi_data::c_base_name: the class prefix, if any, and the method's name,
\* or the constructor/destructor suffix.
c_base_name(cpp_method, allocation_place, include_file_base_name) ==
  LET scope == IF cpp_method.has_class_membership THEN cpp_method.class_name ELSE <<>>
  IN CASE cpp_method.kind = "Constructor" -> Ok(scope \o <<"constructor">>)
       [] cpp_method.kind = "Destructor" -> Ok(scope \o <<"destructor">>)
       [] OTHER -> Ok(scope \o cpp_method.name)

\* MethodCaptionStrategy::all(): from the least to the most verbose.
MethodCaptionStrategy_all ==
  << [arguments |-> "Short", constness |-> FALSE],
     [arguments |-> "Full", constness |-> FALSE],
     [arguments |-> "Full", constness |-> TRUE] >>

\* CppFfiFunctionSignature::caption(MethodCaptionStrategy)
caption(c_signature, strategy) ==
  With(map_if_ok([i \in 1..Len(c_signature.arguments) |->
                    type_caption(c_signature.arguments[i], strategy.arguments)], <<>>),
       LAMBDA args :
     IF ~args.ok THEN args
     ELSE Ok((IF strategy.constness /\ c_signature.is_const THEN <<"const">> ELSE <<>>)
             \o Join(args.val)))

\* CppMethod::receiver_id: a token fixed by the slot's signature
receiver_id(method) ==
  With(map_if_ok([i \in 1..Len(method.arguments) |->
                    type_caption(method.arguments[i], "Full")], <<>>),
       LAMBDA args :
     IF ~args.ok THEN args ELSE Ok(<<"slot">> \o method.name \o Join(args.val)))

\* cpp_data::create_cast_method
create_cast_method(name, from, to, is_unsafe_static_cast, is_direct_static_cast, include_file) ==
  [CppMethod(name, <<>>, "Regular", <<from>>, include_file)
     EXCEPT !.return_type = to,
            !.template_arguments_values = TRUE,
            !.is_ffi_whitelisted = TRUE]

(***************************************************************************)
(* cpp_ffi_generator.rs                                                    *)
(***************************************************************************)
\* Mutant of run_filters: a method passes as soon as one filter allows it.
RECURSIVE run_filters_any_allows(_, _)
run_filters_any_allows(method, i) ==
  IF i > Len(filters) THEN Ok(i = 1)
  ELSE With(FilterFn(filters[i], method), LAMBDA allowed :
          IF allowed = "err" THEN Err("cpp_ffi_generator_filter failed")
          ELSE IF allowed = "true" THEN Ok(TRUE)
          ELSE run_filters_any_allows(method, i + 1))

\* lines 85-93: the filters in order; the first error or the first false wins
RECURSIVE run_filters(_, _)
run_filters(method, i) ==
  IF i > Len(filters) THEN Ok(TRUE)
  ELSE With(FilterFn(filters[i], method), LAMBDA allowed :
          IF allowed = "err" THEN Err("cpp_ffi_generator_filter failed")
          ELSE IF allowed = "false" THEN Ok(FALSE)
          ELSE run_filters(method, i + 1))

\* Mutant of is_constructor_of_abstract_class: the check looks at the
\* destructors instead of the constructors.
is_destructor_of_abstract_class(method, class_name) ==
  /\ method.has_class_membership
  /\ method.kind = "Destructor"
  /\ has_pure_virtual_methods(class_name)

\* lines 97-99: a constructor of a class with pure virtual methods
is_constructor_of_abstract_class(method, class_name) ==
  /\ method.has_class_membership
  /\ method.kind = "Constructor"
  /\ has_pure_virtual_methods(class_name)

should_process_method(method) ==
  IF method.is_fake_inherited_method THEN Ok(FALSE)
  ELSE With(IF method.has_class_membership THEN method.class_name ELSE <<>>,
            LAMBDA class_name :
       With(run_filters(method, 1), LAMBDA allowed :
          IF ~allowed.ok THEN allowed
          ELSE IF ~allowed.val THEN Ok(FALSE)
          ELSE IF class_name = <<"QFlags">> THEN Ok(FALSE)
          ELSE IF is_constructor_of_abstract_class(method, class_name) THEN Ok(FALSE)
          ELSE IF method.has_class_membership /\ method.visibility = "Private"
               THEN Ok(FALSE)
          ELSE IF method.has_class_membership /\ method.visibility = "Protected"
               THEN Ok(FALSE)
          ELSE IF method.has_class_membership /\ method.is_signal THEN Ok(FALSE)
          ELSE IF method.template_arguments THEN Ok(FALSE)
          ELSE IF method.template_arguments_values /\ ~method.is_ffi_whitelisted
               THEN Ok(FALSE)
          ELSE IF \E t \in all_involved_types(method) :
                    is_or_contains_template_parameter(t) THEN Ok(FALSE)
          ELSE Ok(TRUE)))

\* common::utils::add_to_multihash
add_to_multihash(hash, key, value) ==
  IF key \in DOMAIN hash THEN [hash EXCEPT ![key] = Append(@, value)]
  ELSE [k \in DOMAIN hash \cup {key} |-> IF k = key THEN <<value>> ELSE hash[k]]

EmptyHash == [k \in {} |-> <<>>]

\* lines 144-174, the body of the loop for one method: Err when a filter
\* fails, Ok(<<>>) when the method is skipped (not to be processed, no FFI
\* signature or no base name), else Ok(<<[key, value]>>), the entry to add
collect_method(method, include_file_base_name, type_allocation_places_override) ==
  With(should_process_method(method), LAMBDA process :
    IF ~process.ok THEN process
    ELSE IF ~process.val THEN Ok(<<>>)
    ELSE With(to_ffi_signature(method, type_allocation_places_override),
              LAMBDA signature :
           IF ~signature.ok THEN Ok(<<>>)
           ELSE With(c_base_name(signature.val.cpp_method,
                                 signature.val.allocation_place,
                                 include_file_base_name),
                     LAMBDA name :
                  IF ~name.ok THEN Ok(<<>>)
                  ELSE Ok(<<[key |-> cpp_ffi_lib_name \o name.val,
                             value |-> signature.val]>>))))

\* lines 142-175: the methods in order; the first error of a filter ends the
\* call, and the entries of the other methods are added to the map
RECURSIVE add_entries(_, _)
add_entries(entries, hash) ==
  IF entries = <<>> THEN hash
  ELSE IF Head(entries).val = <<>> THEN add_entries(Tail(entries), hash)
  ELSE add_entries(Tail(entries),
                   add_to_multihash(hash, Head(entries).val[1].key,
                                    Head(entries).val[1].value))

collect_methods(include_file_base_name, type_allocation_places_override, methods, hash) ==
  With([i \in 1..Len(methods) |->
          collect_method(methods[i], include_file_base_name,
                         type_allocation_places_override)],
       LAMBDA entries :
     IF \E i \in 1..Len(entries) : ~entries[i].ok
     THEN entries[CHOOSE i \in 1..Len(entries) :
                    ~entries[i].ok /\ \A j \in 1..(i - 1) : entries[j].ok]
     ELSE Ok(add_entries(entries, hash)))

\* lines 185-194: the captions of the values under one strategy, one value
\* after the other, stopping at the first caption seen before.
RECURSIVE captions_are_distinct(_, _, _)
captions_are_distinct(values, strategy, type_captions) ==
  IF values = <<>> THEN Ok(TRUE)
  ELSE With(caption(Head(values).c_signature, strategy), LAMBDA c :
          IF ~c.ok THEN c
          ELSE IF c.val \in type_captions THEN Ok(FALSE)
          ELSE captions_are_distinct(Tail(values), strategy,
                                     type_captions \cup {c.val}))

\* Mutant of find_strategy: the strategies are tried from the most verbose to
\* the least verbose one.
RECURSIVE find_strategy_most_verbose_first(_, _)
find_strategy_most_verbose_first(values, s) ==
  IF s > Len(MethodCaptionStrategy_all) THEN Ok(0)
  ELSE With(Len(MethodCaptionStrategy_all) + 1 - s, LAMBDA t :
       With(captions_are_distinct(values, MethodCaptionStrategy_all[t], {}),
            LAMBDA distinct :
          IF ~distinct.ok THEN distinct
          ELSE IF distinct.val THEN Ok(t)
          ELSE find_strategy_most_verbose_first(values, s + 1)))

\* lines 183-199: the first strategy, in the order of all(), that tells the
\* values apart; 0 when there is none.
RECURSIVE find_strategy(_, _)
find_strategy(values, s) ==
  IF s > Len(MethodCaptionStrategy_all) THEN Ok(0)
  ELSE With(captions_are_distinct(values, MethodCaptionStrategy_all[s], {}),
            LAMBDA distinct :
          IF ~distinct.ok THEN distinct
          ELSE IF distinct.val THEN Ok(s)
          ELSE find_strategy(values, s + 1))

\* CppAndFfiMethod::new
CppAndFfiMethod(data, c_name) ==
  [cpp_method |-> data.cpp_method, allocation_place |-> data.allocation_place,
   c_signature |-> data.c_signature, c_name |-> c_name]

\* lines 203-207
final_name(key, method_caption) ==
  IF method_caption = <<>> THEN key ELSE key \o method_caption

\* lines 201-209: the values of one group named with the found strategy
name_values(key, values, strategy) ==
  [i \in 1..Len(values) |->
     CppAndFfiMethod(values[i],
                     final_name(key, caption(values[i].c_signature, strategy).val))]

\* line 219: sort_by(|a, b| a.c_name.cmp(&b.c_name)), a stable sort
RECURSIVE insert_sorted(_, _)
insert_sorted(sorted, x) ==
  IF sorted = <<>> THEN <<x>>
  ELSE IF StrLess(x.c_name, Head(sorted).c_name) THEN <<x>> \o sorted
  ELSE <<Head(sorted)>> \o insert_sorted(Tail(sorted), x)

RECURSIVE sort_by_c_name(_)
sort_by_c_name(methods) ==
  IF methods = <<>> THEN <<>>
  ELSE insert_sorted(sort_by_c_name(SubSeq(methods, 1, Len(methods) - 1)),
                     methods[Len(methods)])

\* Mutant of resolve_group: a group no strategy tells apart is left out and
\* the loop goes on.
resolve_group_skipping(key, values) ==
  IF Len(values) = 1 THEN Ok(<<CppAndFfiMethod(values[1], key)>>)
  ELSE With(find_strategy(values, 1), LAMBDA found_strategy :
         IF ~found_strategy.ok THEN found_strategy
         ELSE IF found_strategy.val = 0 THEN Ok(<<>>)
         ELSE Ok(name_values(key, values,
                             MethodCaptionStrategy_all[found_strategy.val])))

\* lines 179-217, the body of the loop for one key: a group of one keeps its
\* base name; a larger one is named with the first strategy that tells its
\* methods apart, and fails the call when there is none.
resolve_group(key, values) ==
  IF Len(values) = 1 THEN Ok(<<CppAndFfiMethod(values[1], key)>>)
  ELSE With(find_strategy(values, 1), LAMBDA found_strategy :
         IF ~found_strategy.ok THEN found_strategy
         ELSE IF found_strategy.val = 0
              THEN Err("all type caption strategies have failed")
         ELSE Ok(name_values(key, values,
                             MethodCaptionStrategy_all[found_strategy.val])))

\* line 178: the groups in the order the map yields them; the first group
\* that fails ends the loop
RECURSIVE resolve_groups(_, _, _)
resolve_groups(groups, keys, processed_methods) ==
  IF keys = <<>> THEN Ok(processed_methods)
  ELSE IF ~groups[Head(keys)].ok THEN groups[Head(keys)]
  ELSE resolve_groups(groups, Tail(keys), processed_methods \o groups[Head(keys)].val)

\* lines 142-175 of process_methods: the map of the base names
hash_of(include_file_base_name, type_allocation_places_override, methods) ==
  collect_methods(include_file_base_name, type_allocation_places_override, methods,
                  EmptyHash)

\* lines 177-220 of process_methods: hash is the result of the first loop
\* and keys the order in which the map yields its keys
process_methods(hash, groups, keys) ==
  IF ~hash.ok THEN hash
  ELSE With(resolve_groups(groups, keys, <<>>), LAMBDA processed_methods :
         IF ~processed_methods.ok THEN processed_methods
         ELSE Ok(sort_by_c_name(processed_methods.val)))

\* the loop body of every key of the map
groups_of(hash) ==
  IF ~hash.ok THEN EmptyHash
  ELSE [key \in DOMAIN hash.val |-> resolve_group(key, hash.val[key])]

\* lines 257-296: the closure create_function of one bridge class
create_function(class_name, kind, name, is_slot, arguments) ==
  [CppMethod(name, class_name, kind, arguments, <<"slots">>)
     EXCEPT !.is_slot = is_slot]

\* Mutant of slot_wrapper: the bridge class gets no destructor.
slot_wrapper_without_destructor(types, ffi_types, class_name) ==
  LET void_ptr == CppType("Void", <<"void">>, "Ptr")
      function_type ==
        [CppType("FunctionPointer", <<>>, "None")
           EXCEPT !.arguments =
                    <<void_ptr>> \o [i \in 1..Len(ffi_types) |-> ffi_types[i].ffi_type]]
      method_custom_slot ==
        create_function(class_name, "Regular", <<"custom", "slot">>, TRUE, types)
  IN Ok([wrapper |-> [class_name |-> class_name,
                      arguments |-> ffi_types,
                      function_type |-> function_type,
                      receiver_id |-> receiver_id(method_custom_slot).val],
         methods |->
           << create_function(class_name, "Constructor", class_name, FALSE, <<>>),
              create_function(class_name, "Regular", <<"set">>, FALSE,
                              <<function_type, void_ptr>>),
              method_custom_slot,
              create_cast_method(<<"static", "cast">>,
                                 CppType("Class", class_name, "Ptr"),
                                 CppType("Class", <<"QObject">>, "Ptr"),
                                 FALSE, TRUE, <<"slots">>) >>])

\* lines 242-370 for one tuple, its FFI types and its class name given: the
\* descriptor and the five methods of the bridge class
slot_wrapper(types, ffi_types, class_name) ==
  LET void_ptr == CppType("Void", <<"void">>, "Ptr")
      func_arguments == <<void_ptr>> \o [i \in 1..Len(ffi_types) |-> ffi_types[i].ffi_type]
      function_type == [CppType("FunctionPointer", <<>>, "None")
                          EXCEPT !.arguments = func_arguments]
      method_custom_slot ==
        create_function(class_name, "Regular", <<"custom", "slot">>, TRUE, types)
      cast_from == CppType("Class", class_name, "Ptr")
      cast_to == CppType("Class", <<"QObject">>, "Ptr")
  IN With(receiver_id(method_custom_slot), LAMBDA slot_receiver_id :
       IF ~slot_receiver_id.ok THEN slot_receiver_id
       ELSE Ok([wrapper |-> [class_name |-> class_name,
                             arguments |-> ffi_types,
                             function_type |-> function_type,
                             receiver_id |-> slot_receiver_id.val],
                methods |->
                  << create_function(class_name, "Constructor", class_name, FALSE, <<>>),
                     create_function(class_name, "Destructor", <<"~">> \o class_name,
                                     FALSE, <<>>),
                     create_function(class_name, "Regular", <<"set">>, FALSE,
                                     <<function_type, void_ptr>>),
                     method_custom_slot,
                     create_cast_method(<<"static", "cast">>, cast_from, cast_to,
                                        FALSE, TRUE, <<"slots">>) >>]))

\* lines 233-251 for one tuple: its FFI types, its captions and the name of
\* its bridge class; a type without FFI type or caption is an error
slot_wrapper_of(types) ==
  With(map_if_ok([i \in 1..Len(types) |->
                    to_cpp_ffi_type(types[i], "NotReturnType")], <<>>),
       LAMBDA ffi_types :
  With(map_if_ok([i \in 1..Len(types) |-> type_caption(types[i], "Full")], <<>>),
       LAMBDA args_captions :
     IF ~ffi_types.ok THEN ffi_types
     ELSE IF ~args_captions.ok THEN args_captions
     ELSE slot_wrapper(types, ffi_types.val,
                       cpp_ffi_lib_name \o <<"SlotWrapper">> \o
                       (IF args_captions.val = <<>> THEN <<"no", "args">>
                        ELSE Join(args_captions.val)))))

\* lines 230-371: one bridge class per tuple, in the order of the tuples; the
\* first error ends the call
RECURSIVE build_slot_wrappers(_, _, _)
build_slot_wrappers(tuples, wrappers, methods) ==
  IF tuples = <<>> THEN Ok([qt_slot_wrappers |-> wrappers, methods |-> methods])
  ELSE With(slot_wrapper_of(Head(tuples)), LAMBDA built :
         IF ~built.ok THEN built
         ELSE build_slot_wrappers(Tail(tuples), Append(wrappers, built.val.wrapper),
                                  methods \o built.val.methods))

\* lines 36-41: the include files of the data, sorted
RECURSIVE sorted_strings(_)
sorted_strings(S) ==
  IF S = {} THEN <<>>
  ELSE With(CHOOSE x \in S : \A y \in S \ {x} : StrLess(x, y), LAMBDA least :
         <<least>> \o sorted_strings(S \ {least}))

include_name_list == sorted_strings(cpp_data.include_files)

\* lines 44-48: the file name up to its first dot
base_name_of(include_file) == <<Head(include_file)>>

CppFfiHeaderData(include_file_base_name, methods, wrappers) ==
  [include_file_base_name |-> include_file_base_name,
   methods |-> methods,
   qt_slot_wrappers |-> wrappers]

RunError(e) == [status |-> "Err", err |-> e, headers |-> <<>>]

\* Mutant of run_return: an empty list of headers is returned as a success.
run_return_without_check(headers) ==
  [status |-> "Ok", err |-> "none", headers |-> headers]

\* lines 71-74
run_return(headers) ==
  IF headers = <<>> THEN RunError("No FFI headers generated")
  ELSE [status |-> "Ok", err |-> "none", headers |-> headers]

\* line 56: the methods of one include file, in the order of the data
methods_of(include_file) ==
  SelectSeq(cpp_data.methods, LAMBDA x : x.include_file = include_file)

\* The orders in which the HashMap yields its keys: the keys as sorted, or
\* the other way round, so that every two keys are met in both orders.
reverse(keys) == [i \in 1..Len(keys) |-> keys[Len(keys) + 1 - i]]

iteration_orders(hash) ==
  IF ~hash.ok THEN {<<>>}
  ELSE With(sorted_strings(DOMAIN hash.val), LAMBDA keys : {keys, reverse(keys)})

(***************************************************************************)
(* The inputs of run().                                                    *)
(***************************************************************************)
\* the elements of pool at the positions in S, in the order of the pool
RECURSIVE pick(_, _, _)
pick(pool, S, i) ==
  IF i > Len(pool) THEN <<>>
  ELSE (IF i \in S THEN <<pool[i]>> ELSE <<>>) \o pick(pool, S, i + 1)

\* the sets of at most k of the positions 1..n
RECURSIVE positions(_, _)
positions(n, k) ==
  IF n = 0 \/ k = 0 THEN {{}}
  ELSE positions(n - 1, k) \cup {S \cup {n} : S \in positions(n - 1, k - 1)}

InputMethods ==
  {pick(MethodPool, S, 1) : S \in positions(Len(MethodPool), MaxMethods)}

InputTuples ==
  {pick(TuplePool, S, 1) : S \in positions(Len(TuplePool), MaxTuples)}

InputFilters ==
  {f \in UNION {[1..n -> 1..Len(FilterPool)] : n \in 0..MaxFilters} :
     \A i, j \in 1..Len(f) : i # j => f[i] # f[j]}

Init ==
  /\ cpp_data \in {[methods |-> ms, signal_argument_types |-> ts,
                    include_files |-> {FileA, FileB}] :
                     ms \in InputMethods, ts \in InputTuples}
  /\ filters \in {[i \in 1..Len(f) |-> FilterPool[f[i]]] : f \in InputFilters}
  /\ pc = "includes"
  /\ include_index = 1
  /\ c_headers = <<>>
  /\ result = [status |-> "Running", err |-> "none", headers |-> <<>>]

(***************************************************************************)
(* run(), one step per call of process_methods.                            *)
(***************************************************************************)
\* lines 43-67: the methods of the next include file are processed; its
\* header is pushed unless it has no method, and an error of process_methods
\* is the error of run (line 56).  hash_name_to_methods is a HashMap: the
\* loop of line 178 meets its keys in an order the run picks.
ProcessInclude ==
  /\ pc = "includes"
  /\ include_index <= Len(include_name_list)
  /\ With(base_name_of(include_name_list[include_index]),
          LAMBDA include_file_base_name :
     With(hash_of(include_file_base_name, "None",
                  methods_of(include_name_list[include_index])), LAMBDA hash :
     With(groups_of(hash), LAMBDA groups :
       \E keys \in iteration_orders(hash) :
         With(process_methods(hash, groups, keys), LAMBDA methods :
           IF ~methods.ok
           THEN /\ result' = RunError(methods.err)
                /\ pc' = "done"
                /\ UNCHANGED <<include_index, c_headers>>
           ELSE /\ c_headers' =
                     IF methods.val = <<>> THEN c_headers
                     ELSE Append(c_headers,
                                 CppFfiHeaderData(include_file_base_name,
                                                  methods.val, <<>>))
                /\ include_index' = include_index + 1
                /\ pc' = IF include_index' > Len(include_name_list)
                         THEN "slots" ELSE "includes"
                /\ UNCHANGED result))))
  /\ UNCHANGED <<cpp_data, filters>>

\* lines 227-229 and 68-74: no signal argument types, no "slots" header
NoSlotWrappers ==
  /\ pc = "slots"
  /\ cpp_data.signal_argument_types = <<>>
  /\ result' = run_return(c_headers)
  /\ pc' = "done"
  /\ UNCHANGED <<cpp_data, filters, include_index, c_headers>>

\* lines 230-379 and 68-74: the bridge classes are built and their methods
\* processed; the "slots" header is pushed and run returns.  A type of a
\* tuple without FFI type, caption or receiver id (lines 234, 236, 339) and
\* an error of process_methods (line 377) are the error of run.
GenerateSlotWrappers ==
  /\ pc = "slots"
  /\ cpp_data.signal_argument_types # <<>>
  /\ With(build_slot_wrappers(cpp_data.signal_argument_types, <<>>, <<>>),
          LAMBDA built :
       IF ~built.ok
       THEN /\ result' = RunError(built.err)
            /\ UNCHANGED c_headers
       ELSE With(hash_of(<<"slots">>, "Heap", built.val.methods), LAMBDA hash :
            With(groups_of(hash), LAMBDA groups :
              \E keys \in iteration_orders(hash) :
                With(process_methods(hash, groups, keys), LAMBDA methods :
                  IF ~methods.ok
                  THEN /\ result' = RunError(methods.err)
                       /\ UNCHANGED c_headers
                  ELSE With(Append(c_headers,
                                   CppFfiHeaderData(<<"slots">>, methods.val,
                                                    built.val.qt_slot_wrappers)),
                            LAMBDA headers :
                         /\ c_headers' = headers
                         /\ result' = run_return(headers))))))
  /\ pc' = "done"
  /\ UNCHANGED <<cpp_data, filters, include_index>>

Next ==
  \/ ProcessInclude
  \/ NoSlotWrappers
  \/ GenerateSlotWrappers

Spec == Init /\ [][Next]_vars

(***************************************************************************)
(* Views of the input and of the result.                                   *)
(***************************************************************************)
Done == pc = "done"
Succeeded == result.status = "Ok"
EmptyOutput == "No FFI headers generated"
NamingExhausted == "all type caption strategies have failed"

\* the positions <<header, entry>> of the entries run() returned
Entries ==
  UNION {{<<h, i>> : i \in 1..Len(result.headers[h].methods)} :
           h \in 1..Len(result.headers)}

EntryAt(p) == result.headers[p[1]].methods[p[2]]

InputMethodSet == {cpp_data.methods[i] : i \in 1..Len(cpp_data.methods)}

\* the methods generate_slot_wrappers synthesizes; <<>> when it cannot
SynthesizedMethods ==
  With(build_slot_wrappers(cpp_data.signal_argument_types, <<>>, <<>>), LAMBDA built :
    IF built.ok THEN built.val.methods ELSE <<>>)

\* the calls of process_methods of a run that gets to all of them
Units ==
  {[name |-> base_name_of(f), override |-> "None", methods |-> methods_of(f)] :
     f \in cpp_data.include_files}
  \cup {[name |-> <<"slots">>, override |-> "Heap", methods |-> SynthesizedMethods]}

\* the methods of a unit that get into the map, with their base names
Candidates(u) ==
  With([i \in 1..Len(u.methods) |-> collect_method(u.methods[i], u.name, u.override)],
       LAMBDA entries :
    IF \E i \in 1..Len(entries) : ~entries[i].ok THEN <<>>
    ELSE Join([i \in 1..Len(entries) |-> entries[i].val]))

CaptionOf(candidate, s) == caption(candidate.value.c_signature, MethodCaptionStrategy_all[s]).val

\* the strategy s gives the candidates at the positions G pairwise distinct captions
TellsApart(candidates, G, s) ==
  \A i, j \in G : i # j => CaptionOf(candidates[i], s) # CaptionOf(candidates[j], s)

Group(candidates, key) == {i \in 1..Len(candidates) : candidates[i].key = key}

Strategies == 1..Len(MethodCaptionStrategy_all)

\* a group of two or more that no strategy tells apart
HasExhaustedGroup(u) ==
  With(Candidates(u), LAMBDA candidates :
    \E i \in 1..Len(candidates) :
      With(Group(candidates, candidates[i].key), LAMBDA G :
        /\ Cardinality(G) > 1
        /\ \A s \in Strategies : ~TellsApart(candidates, G, s)))

(***************************************************************************)
(* C1.  Any two distinct entries of the headers run() returns have         *)
(* different exported names, also across the groups of one call of         *)
(* process_methods and across the include files.                           *)
(***************************************************************************)
ExportedNamesAreUnique ==
  \A p, q \in Entries : p # q => EntryAt(p).c_name # EntryAt(q).c_name

(***************************************************************************)
(* C2.  The result of run() is a function of its input: whatever order the *)
(* map of the base names is iterated in, run() returns what it returns     *)
(* when every map is iterated in the order of its keys.                    *)
(***************************************************************************)
keys_in_order(hash) == IF ~hash.ok THEN <<>> ELSE sorted_strings(DOMAIN hash.val)

RECURSIVE reference_includes(_, _)
reference_includes(i, headers) ==
  IF i > Len(include_name_list) THEN Ok(headers)
  ELSE With(hash_of(base_name_of(include_name_list[i]), "None",
                    methods_of(include_name_list[i])), LAMBDA hash :
       With(process_methods(hash, groups_of(hash), keys_in_order(hash)), LAMBDA methods :
         IF ~methods.ok THEN methods
         ELSE reference_includes(
                i + 1,
                IF methods.val = <<>> THEN headers
                ELSE Append(headers,
                            CppFfiHeaderData(base_name_of(include_name_list[i]),
                                             methods.val, <<>>)))))

reference_slots(headers) ==
  IF cpp_data.signal_argument_types = <<>> THEN run_return(headers)
  ELSE With(build_slot_wrappers(cpp_data.signal_argument_types, <<>>, <<>>),
            LAMBDA built :
         IF ~built.ok THEN RunError(built.err)
         ELSE With(hash_of(<<"slots">>, "Heap", built.val.methods), LAMBDA hash :
              With(process_methods(hash, groups_of(hash), keys_in_order(hash)),
                   LAMBDA methods :
                IF ~methods.ok THEN RunError(methods.err)
                ELSE run_return(Append(headers,
                                       CppFfiHeaderData(<<"slots">>, methods.val,
                                                        built.val.qt_slot_wrappers))))))

ReferenceResult ==
  With(reference_includes(1, <<>>), LAMBDA headers :
    IF ~headers.ok THEN RunError(headers.err) ELSE reference_slots(headers.val))

ResultIsAFunctionOfTheInput == Done => result = ReferenceResult

(***************************************************************************)
(* C3.  When a call of process_methods has a group of two or more methods  *)
(* that no captioning strategy tells apart, run() returns an error and no  *)
(* header at all.                                                          *)
(***************************************************************************)
ExhaustionFailsTheRun ==
  (Done /\ ~(result.status = "Err" /\ result.headers = <<>>))
    => \A u \in Units : ~HasExhaustedGroup(u)

\* the include file "a.h" gave a header, then a group of "b.h" was exhausted
ExhaustionAfterAHeader ==
  /\ Done
  /\ c_headers # <<>>
  /\ result.err = NamingExhausted
  /\ \E u \in Units : HasExhaustedGroup(u)

(***************************************************************************)
(* C4.  Every entry is named by its group: a method alone under its base   *)
(* name gets the base name; the methods of a larger group are all named    *)
(* with the first strategy, in the order of all(), that gives them         *)
(* pairwise distinct captions, each base name + "_" + caption, and at most *)
(* one of them, the one with the empty caption, gets the bare base name.   *)
(***************************************************************************)
FirstStrategy(candidates, G) ==
  CHOOSE s \in Strategies :
    /\ TellsApart(candidates, G, s)
    /\ \A t \in 1..(s - 1) : ~TellsApart(candidates, G, t)

ExpectedName(candidates, i) ==
  With(Group(candidates, candidates[i].key), LAMBDA G :
    IF Cardinality(G) = 1 THEN candidates[i].key
    ELSE candidates[i].key \o CaptionOf(candidates[i], FirstStrategy(candidates, G)))

UnitOf(header) == CHOOSE u \in Units : u.name = header.include_file_base_name

HeaderIsNamedByGroups(header) ==
  With(Candidates(UnitOf(header)), LAMBDA candidates :
    /\ Len(header.methods) = Len(candidates)
    /\ {<<header.methods[i].cpp_method, header.methods[i].c_name>> :
          i \in 1..Len(header.methods)}
       = {<<candidates[i].value.cpp_method, ExpectedName(candidates, i)>> :
            i \in 1..Len(candidates)}
    /\ \A i \in 1..Len(candidates) :
         With(Group(candidates, candidates[i].key), LAMBDA G :
           Cardinality(G) > 1 =>
             Cardinality({j \in 1..Len(header.methods) :
                            header.methods[j].c_name = candidates[i].key}) <= 1))

EntriesAreNamedByTheirGroups ==
  \A h \in 1..Len(result.headers) : HeaderIsNamedByGroups(result.headers[h])

\* a returned header with a group that the first strategy does not tell apart
\* and with a group whose member with the empty caption has the bare base name
NamedWithALaterStrategy ==
  /\ Done /\ Succeeded
  /\ \E h \in 1..Len(result.headers) :
       With(Candidates(UnitOf(result.headers[h])), LAMBDA candidates :
         /\ \E i \in 1..Len(candidates) :
              With(Group(candidates, candidates[i].key), LAMBDA G :
                Cardinality(G) > 1 /\ FirstStrategy(candidates, G) > 1)
         /\ \E i \in 1..Len(candidates) :
              With(Group(candidates, candidates[i].key), LAMBDA G :
                /\ Cardinality(G) > 1
                /\ \E j \in 1..Len(result.headers[h].methods) :
                     result.headers[h].methods[j].c_name = candidates[i].key))

(***************************************************************************)
(* C5.  No header run() returns has an empty method list, the "slots"      *)
(* header included.                                                        *)
(***************************************************************************)
NoHeaderIsEmpty ==
  \A h \in 1..Len(result.headers) : result.headers[h].methods # <<>>

(***************************************************************************)
(* C6.  A type without FFI mapping never makes run() fail: the method is   *)
(* skipped alone, on every path that translates or captions a type.        *)
(***************************************************************************)
UnmappedTypeNeverFailsTheRun ==
  result.status = "Err" => result.err # "no FFI type"

(***************************************************************************)
(* C7.  With signal argument tuples, a successful run returns a "slots"    *)
(* header with one descriptor per tuple and none else; without tuples it   *)
(* returns no "slots" header.  As claimed: the class names are pairwise    *)
(* distinct and every bridge class has exactly its five entries            *)
(* (constructor, destructor, set, custom_slot, cast to QObject).  As       *)
(* amended: the class names are pairwise distinct and every bridge class   *)
(* has those of its five entries that should_process_method accepts, so    *)
(* exactly five when it accepts all synthesized methods.                   *)
(***************************************************************************)
SlotRoles == {"constructor", "destructor", "set", "custom_slot", "cast"}

SlotRole(method) ==
  CASE method.kind = "Constructor" -> "constructor"
    [] method.kind = "Destructor" -> "destructor"
    [] method.is_slot -> "custom_slot"
    [] method.name = <<"set">> -> "set"
    [] method.name = <<"static", "cast">> -> "cast"
    [] OTHER -> "none"

SlotClass(method) ==
  IF method.has_class_membership THEN method.class_name
  ELSE IF method.arguments # <<>> THEN method.arguments[1].name
  ELSE <<>>

EntriesOf(header, class_name, role) ==
  {i \in 1..Len(header.methods) :
     /\ SlotClass(header.methods[i].cpp_method) = class_name
     /\ SlotRole(header.methods[i].cpp_method) = role}

SlotsHeaders ==
  {h \in 1..Len(result.headers) : result.headers[h].include_file_base_name = <<"slots">>}

OneDescriptorPerTuple(header) ==
  /\ Len(header.qt_slot_wrappers) = Len(cpp_data.signal_argument_types)
  /\ \A i \in 1..Len(header.qt_slot_wrappers) :
       [j \in 1..Len(header.qt_slot_wrappers[i].arguments) |->
          header.qt_slot_wrappers[i].arguments[j].original_type]
       = cpp_data.signal_argument_types[i]

ClassNamesAreDistinct(header) ==
  \A i, j \in 1..Len(header.qt_slot_wrappers) :
    i # j => header.qt_slot_wrappers[i].class_name # header.qt_slot_wrappers[j].class_name

FiveEntriesPerClass(header) ==
  /\ Len(header.methods) = 5 * Len(header.qt_slot_wrappers)
  /\ \A i \in 1..Len(header.qt_slot_wrappers) : \A role \in SlotRoles :
       Cardinality(EntriesOf(header, header.qt_slot_wrappers[i].class_name, role)) = 1

Accepted(method) ==
  With(should_process_method(method), LAMBDA process : process.ok /\ process.val)

\* the synthesized methods that should_process_method accepts
AcceptedSynthesizedMethods ==
  With(SynthesizedMethods, LAMBDA methods :
    {methods[i] : i \in {j \in 1..Len(methods) : Accepted(methods[j])}})

EverySynthesizedMethodIsAccepted ==
  With(SynthesizedMethods, LAMBDA methods :
    \A i \in 1..Len(methods) : Accepted(methods[i]))

AcceptedEntriesPerClass(header) ==
  /\ {header.methods[i].cpp_method : i \in 1..Len(header.methods)}
     = AcceptedSynthesizedMethods
  /\ \A i \in 1..Len(header.qt_slot_wrappers) : \A role \in SlotRoles :
       Cardinality(EntriesOf(header, header.qt_slot_wrappers[i].class_name, role)) <= 1
  /\ EverySynthesizedMethodIsAccepted => FiveEntriesPerClass(header)

RejectedBy(method) ==
  {i \in 1..Len(filters) : FilterFn(filters[i], method) = "false"}

FilteredMethodsAreAbsent ==
  \A p \in Entries : RejectedBy(EntryAt(p).cpp_method) = {}

\* a run with two filters returned headers, and the second filter alone
\* rejects a method of the input
RejectedByTheSecondFilter ==
  /\ Done /\ Succeeded
  /\ Entries # {}
  /\ \E m \in InputMethodSet : RejectedBy(m) = {2}

(***************************************************************************)
(* C9.  No header run() returns holds a constructor of a class that has    *)
(* a pure virtual method.                                                  *)
(***************************************************************************)
NoConstructorOfAnAbstractClass ==
  \A p \in Entries :
    ~(/\ EntryAt(p).cpp_method.has_class_membership
      /\ EntryAt(p).cpp_method.kind = "Constructor"
      /\ \E m \in InputMethodSet :
           /\ m.has_class_membership
           /\ m.class_name = EntryAt(p).cpp_method.class_name
           /\ m.is_pure_virtual)

\* the input has the constructor of a class and a pure virtual method of it,
\* and the pure virtual method was returned
AbstractClassInTheOutput ==
  /\ Done /\ Succeeded
  /\ \E m \in InputMethodSet : m.kind = "Constructor" /\ has_pure_virtual_methods(m.class_name)
  /\ \E p \in Entries : EntryAt(p).cpp_method.is_pure_virtual

(***************************************************************************)
(* C10.  Without eligible methods and without signal argument tuples       *)
(* run() fails with "No FFI headers generated", and it fails with that     *)
(* error only when no unit has a method to return.  As claimed: "without   *)
(* eligible methods" is: should_process_method returns Ok(true) for no     *)
(* method.  As amended: it returns Ok(false) for every method, so that no  *)
(* filter fails.                                                           *)
(***************************************************************************)
NoUnitHasMethods ==
  /\ cpp_data.signal_argument_types = <<>>
  /\ \A f \in cpp_data.include_files :
       Candidates([name |-> base_name_of(f), override |-> "None",
                   methods |-> methods_of(f)]) = <<>>

Rejected(method) ==
  With(should_process_method(method), LAMBDA process : process.ok /\ ~process.val)

====
